---------------------------- MODULE Spec2Model ----------------------------
(***************************************************************************)
(* Background jobs of vifm (src/src/background.c), POSIX build (the        *)
(* #ifndef _WIN32 branches).                                               *)
(*                                                                         *)
(* Actors:                                                                 *)
(*   - the UI thread, which runs check_background_jobs(),                  *)
(*     start_background_job() and bg_execute();                            *)
(*   - delivery of SIGCHLD, whose handler calls add_finished_job();        *)
(*   - the child processes of command jobs;                                *)
(*   - one worker thread per task/operation job                            *)
(*     (background_task_bootstrap()).                                      *)
(*                                                                         *)
(* A job_t is a record of the function job; a pointer to a job is its      *)
(* index, NULL is 0.  Indices are handed out in order and never reused, so *)
(* that a freed job stays distinguishable from a later one.                *)
(***************************************************************************)
EXTENDS Integers, Sequences, FiniteSets

(* ------------------------------ bounds -------------------------------- *)

\* Number of jobs that are created in one run.
MaxJobs == 3
\* Number of blocks the child processes write to their error streams.
MaxChunks == 2
\* Number of errors the worker routines report through error_msg().
MaxErrs == 2
\* Number of calls of the system (malloc, pipe, fork, pthread_*, sigprocmask)
\* that fail.
MaxFaults == 1
\* Number of times a waitpid() is interrupted by a signal.
MaxEintr == 2
\* Number of full reads and of short reads of the child's error stream.
MaxBig == 11
MaxSmall == 2
\* Number of calls of bg_op_set_descr().
MaxSets == 3
\* Number of blocks a pipe holds before the child that writes has to wait.
MaxPend == 2
\* Number of files in the trash, and of keys the trash menu is given.
MaxItems == 3
MaxKeys == 3

\* The runs that are explored: MaxJobs jobs that report nothing and meet no
\* fault, or two jobs with errors on both channels, or two jobs with faults.
Limits ==
    {[jobs |-> MaxJobs, errs |-> 0, chunks |-> 0, faults |-> 0],
     [jobs |-> 2, errs |-> MaxErrs, chunks |-> MaxChunks, faults |-> 0],
     [jobs |-> 2, errs |-> 0, chunks |-> 0, faults |-> MaxFaults]}

(* -------------------------- program constants ------------------------- *)

\* NULL pointer to a job_t.
NULL == 0
\* Process id of jobs that are threads.
WRONG_PID == -1
\* Descriptor of jobs that have no pipe.
NO_JOB_ID == -1
\* Exit code of a child whose execve() failed.
ExecFailed == 127
\* Exit codes of child processes.
ExitCodes == {0, ExecFailed}
\* Value of an int field that was never assigned after malloc().
Unset == -2

JobIds == 1..MaxJobs
Pids == 1..MaxJobs

VARIABLES
    jobs,        \* head of the list of jobs (the global `jobs`)
    job,         \* the job_t objects
    proc,        \* child processes: state, exit code, error stream
    sigBlocked,  \* whether SIGCHLD is blocked (set_sigchld(1))
    ui,          \* the UI thread: position and locals
    worker,      \* worker threads: position, current job
    bar,         \* bg_op's the job bar displays
    finLog,      \* per job: who assigned running = 0, in order
    freeLog,     \* per job: values of `running` seen by the walks that freed it
    walk,        \* the walk in progress: list it detached, jobs it saw finished
    ret,         \* the call that returned in the last step, if one did
    used,        \* how many faults, errors and blocks the run had so far
    lim,         \* how many of them the run may have (one of Limits)
    ws,          \* a call of background_and_wait_for_status()
    we,          \* a call of background_and_wait_for_errors()
    bgop,        \* the bg_op of one job, its lock and the threads that use it
    tm           \* the trash menu (menu_info m) and the list of the trash

vars == <<jobs, job, proc, sigBlocked, ui, worker, bar, finLog, freeLog, walk,
          ret, used, lim, ws, we, bgop, tm>>

\* The jobs: what the calls that wait for a child leave alone.
jobVars == <<jobs, job, proc, sigBlocked, ui, worker, bar, finLog, freeLog,
             walk, ret, used, lim>>

\* What no step of the jobs changes.
others == <<lim, ws, we, bgop, tm>>

(* ------------------------------ helpers ------------------------------- *)

\* A job_t that was not allocated yet.
NoJob ==
    [st |-> "none", type |-> "none", pid |-> WRONG_PID, next |-> NULL,
     fd |-> NO_JOB_ID, skip_errors |-> FALSE, running |-> FALSE,
     exit_code |-> Unset, error |-> <<>>]

\* Memory of a job_t after free().
FreedJob == [NoJob EXCEPT !.st = "freed"]

NoProc == [st |-> "none", code |-> 0, pend |-> 0]

NoWorker == [pc |-> "none", cur |-> NULL]

\* Outcomes of a call of the system: it can fail while faults are left.
Outcomes == IF used.faults < lim.faults THEN BOOLEAN ELSE {TRUE}

\* The count of faults after a call that succeeded or not.
Faults(ok) == [used EXCEPT !.faults = IF ok THEN @ ELSE @ + 1]

\* No walk is in progress; lost are the jobs that a walk dropped from the
\* list when it reattached its own.
NoWalk == [orig |-> <<>>, fin |-> {}, lost |-> {}]

\* Jobs that were allocated so far.
Allocated == {j \in JobIds : job[j].st # "none"}

\* The list that starts at job h, as the sequence of its jobs.
RECURSIVE ListFrom(_, _)
ListFrom(h, n) ==
    IF h = NULL \/ n = 0 THEN <<>> ELSE <<h>> \o ListFrom(job[h].next, n - 1)

List(h) == ListFrom(h, MaxJobs + 1)

Range(s) == {s[i] : i \in 1..Len(s)}

\* The fields of the registry that only the UI thread assigns: the head, the
\* set of job objects and their links, identities and skip_errors flags.
Registry ==
    [head |-> jobs,
     objs |-> [j \in JobIds |->
                 [st |-> job[j].st, type |-> job[j].type, pid |-> job[j].pid,
                  next |-> job[j].next, fd |-> job[j].fd,
                  skip_errors |-> job[j].skip_errors]]]

NoSnap == [head |-> NULL, objs |-> <<>>]

Returned(op, val, j, snap) == [op |-> op, val |-> val, job |-> j, snap |-> snap]

NoRet == Returned("none", 0, NULL, NoSnap)

\* The UI thread between two calls.
\* call is the position of a call of start_background_job(); stack holds
\* the walks of check_background_jobs() that wait in an error prompt while a
\* walk that was started from the prompt is going on.
IdleUi == [pc |-> "idle", head |-> NULL, prev |-> NULL, p |-> NULL,
           pid |-> 0, skip |-> FALSE, snap |-> NoSnap, shown |-> <<>>,
           call |-> "none", stack |-> <<>>]

\* The error prompt (prompt_error_msg()) is modal and runs the event loop
\* until the user answers.
Prompts == {"prompt_error", "prompt_read"}

\* Whether the UI thread can make a call: it is between two calls or the
\* event loop of an error prompt makes the call.
AtRest == ui.pc \in {"idle"} \cup Prompts /\ ui.call = "none"

\* Index of the job_t the next malloc() returns.
NewJob == Cardinality(Allocated) + 1

\* Process id the next fork() returns.
NewPid == Cardinality({p \in Pids : proc[p].st # "none"}) + 1

(* ------------------------------- Init --------------------------------- *)

\* No call of background_and_wait_for_status() is made.
NoWait ==
    [pc |-> "none", cmd |-> FALSE, cancellable |-> FALSE, cancelled |-> 0,
     cancelled0 |-> 0, status |-> Unset, forked |-> FALSE, child |-> "none",
     code |-> 0, cancellation |-> "disabled", requested |-> FALSE,
     killed |-> FALSE, failed |-> FALSE, eintr |-> 0]

\* The wait status of a child that exited with code 0.
ExitedOk == [exited |-> TRUE, code |-> 0]

\* No call of background_and_wait_for_errors() is made.
NoErrors ==
    [pc |-> "none", forked |-> FALSE, result |-> 0, buf |-> <<>>,
     reads |-> <<>>, big |-> 0, small |-> 0, reported |-> <<>>,
     status |-> ExitedOk]

\* The bg_op of a job after add_background_job(): no description, the lock
\* (bg_op_guard) free, no call of bg_op_set_descr() in progress.  descr and
\* arg are 0 for NULL or the number of a text; shown is the description the
\* job bar displays, seen the one a reader found when it took the lock.
NoBgOp ==
    [lock |-> "none", descr |-> 0, i |-> 0, arg |-> 0, inChanged |-> FALSE,
     shown |-> 0, seen |-> 0, sets |-> 0]

\* No trash menu is shown.  items and matches are the arrays of the menu
\* (matches is <<>> for NULL), of which the first len elements are in use;
\* pos is the cursor, counted from 0; trash is trash_list; key, ret,
\* restored and before are the last key the handler was given, what it
\* returned, whether restore_from_trash() succeeded and the menu before it.
NoMenu ==
    [items |-> <<>>, len |-> 0, pos |-> 0, matches |-> <<>>,
     matching_entries |-> 0, trash |-> <<>>, save_msg |-> 0, failed |-> 0,
     key |-> "none", ret |-> 0, restored |-> FALSE, before |-> <<>>,
     keys |-> 0]

\* State after init_background(): no jobs, no children, SIGCHLD delivered.
JobsInit ==
    /\ jobs = NULL
    /\ job = [j \in JobIds |-> NoJob]
    /\ proc = [p \in Pids |-> NoProc]
    /\ sigBlocked = FALSE
    /\ ui = IdleUi
    /\ worker = [j \in JobIds |-> NoWorker]
    /\ bar = {}
    /\ finLog = [j \in JobIds |-> <<>>]
    /\ freeLog = [j \in JobIds |-> <<>>]
    /\ walk = NoWalk
    /\ ret = NoRet
    /\ used = [faults |-> 0, errs |-> 0, chunks |-> 0]

Init ==
    /\ JobsInit
    /\ lim \in Limits
    /\ ws = NoWait
    /\ we = NoErrors
    /\ bgop = NoBgOp
    /\ tm = NoMenu

(* -------------------- completion of child processes ------------------- *)

\* Mutant of FindPid: the comparison of line 135 is lost, the first job
\* matches.
FindPidAny(h, pid, n) == h

\* First job of the list at h whose pid is `pid` (the loop of
\* add_finished_job()), NULL if there is none.
RECURSIVE FindPid(_, _, _)
FindPid(h, pid, n) ==
    IF h = NULL \/ n = 0 THEN NULL
    ELSE IF job[h].pid = pid THEN h
    ELSE FindPid(job[h].next, pid, n - 1)

\* add_finished_job(pid, exit_code)
AddFinishedJob(pid, exit_code) ==
    LET j == FindPid(jobs, pid, MaxJobs + 1) IN
    IF j = NULL
    THEN UNCHANGED <<job, finLog>>
    ELSE /\ job' = [job EXCEPT ![j].running = FALSE,
                               ![j].exit_code = exit_code]
         /\ finLog' = [finLog EXCEPT ![j] = Append(@, "add_finished_job")]

\* The SIGCHLD handler: reaps an exited child and reports it.  Runs only
\* while the signal is not blocked.
ReceivedSigchld(pid) ==
    /\ ~sigBlocked
    /\ proc[pid].st = "exited"
    /\ proc' = [proc EXCEPT ![pid].st = "reaped", ![pid].code = 0]
    /\ AddFinishedJob(pid, proc[pid].code)
    /\ ret' = NoRet
    /\ UNCHANGED <<jobs, sigBlocked, ui, worker, bar, freeLog, walk, used>>
    /\ UNCHANGED others

\* A child writes a block to its error stream (the write end of the pipe).
ChildWrite(pid) ==
    /\ proc[pid].st = "running"
    /\ used.chunks < lim.chunks
    /\ proc' = [proc EXCEPT ![pid].pend = @ + 1]
    /\ used' = [used EXCEPT !.chunks = @ + 1]
    /\ ret' = NoRet
    /\ UNCHANGED <<jobs, job, sigBlocked, ui, worker, bar, finLog, freeLog,
                   walk>>
    /\ UNCHANGED others

\* A child exits; SIGCHLD becomes pending.
ChildExit(pid, code) ==
    /\ proc[pid].st = "running"
    /\ proc' = [proc EXCEPT ![pid].st = "exited", ![pid].code = code]
    /\ ret' = NoRet
    /\ UNCHANGED <<jobs, job, sigBlocked, ui, worker, bar, finLog, freeLog,
                   walk, used>>
    /\ UNCHANGED others

(* ----------------------- check_background_jobs() ---------------------- *)

\* Mutant of BgJobsFreeze: the signal is blocked also when the call reports
\* that it could not block it.
BgJobsFreezeBlocks(ok) ==
    sigBlocked' = TRUE

\* bg_jobs_freeze(): blocks SIGCHLD; `ok` is whether set_sigchld(1) succeeded.
BgJobsFreeze(ok) ==
    sigBlocked' = IF ok THEN TRUE ELSE sigBlocked

\* bg_jobs_unfreeze(): unblocks SIGCHLD.
BgJobsUnfreeze ==
    sigBlocked' = FALSE

\* The walk that waits in an error prompt, as it is kept while a call made
\* from the prompt walks another list.
Frame ==
    [pc |-> ui.pc, head |-> ui.head, prev |-> ui.prev, p |-> ui.p,
     shown |-> ui.shown, orig |-> walk.orig, fin |-> walk.fin]

\* check_background_jobs(), lines 148-168: returns when the list is empty or
\* cannot be frozen, else detaches the list and starts the walk at its head.
CheckBackgroundJobsEnter ==
    /\ AtRest
    /\ \/ /\ jobs = NULL
          /\ ret' = Returned("check_background_jobs", 0, NULL, NoSnap)
          /\ UNCHANGED <<jobs, sigBlocked, ui, walk, used>>
       \/ /\ jobs # NULL
          /\ \E ok \in Outcomes :
                /\ BgJobsFreeze(ok)
                /\ used' = Faults(ok)
                /\ IF ok
                   THEN /\ jobs' = NULL
                        /\ ui' = [ui EXCEPT
                                     !.pc = "loop", !.head = jobs,
                                     !.p = jobs, !.prev = NULL,
                                     !.shown = <<>>,
                                     !.stack = IF ui.pc = "idle" THEN @
                                               ELSE Append(@, Frame)]
                        /\ walk' = [walk EXCEPT !.orig = List(jobs),
                                                !.fin = {}]
                        /\ ret' = NoRet
                   ELSE /\ ret' = Returned("check_background_jobs", 0, NULL,
                                           NoSnap)
                        /\ UNCHANGED <<jobs, ui, walk>>
    /\ UNCHANGED <<job, proc, worker, bar, finLog, freeLog>>
    /\ UNCHANGED others

\* Mutant of ShouldPrompt: skip_errors is not looked at.
ShouldPromptAlways(p) == TRUE

\* Lines 224 and 242: whether an error of job p is shown.
ShouldPrompt(p) == ~job[p].skip_errors

\* job_check(), lines 222-231: a buffered error is shown unless skip_errors
\* is set, and is cleared.  The prompt is modal: the UI thread stays in it
\* until the user answers; ui.shown is the text it was given.
JobCheckError ==
    /\ ui.pc = "loop"
    /\ ui.p # NULL
    /\ LET p == ui.p IN
       IF job[p].error = <<>>
       THEN /\ ui' = [ui EXCEPT !.pc = "select"]
            /\ UNCHANGED job
       ELSE IF ShouldPrompt(p)
       THEN /\ ui' = [ui EXCEPT !.pc = "prompt_error", !.shown = job[p].error]
            /\ UNCHANGED job
       ELSE /\ job' = [job EXCEPT ![p].error = <<>>]
            /\ ui' = [ui EXCEPT !.pc = "select"]
    /\ ret' = NoRet
    /\ UNCHANGED <<jobs, proc, sigBlocked, worker, bar, finLog, freeLog, walk,
                   used>>
    /\ UNCHANGED others

\* job_check(), lines 226-230: prompt_error_msg() returns r, which becomes
\* skip_errors; the buffer is freed and reset.
PromptErrorReturn(r) ==
    /\ ui.pc = "prompt_error"
    /\ ui.call = "none"
    /\ job' = [job EXCEPT ![ui.p].skip_errors = r, ![ui.p].error = <<>>]
    /\ ui' = [ui EXCEPT !.pc = "select", !.shown = <<>>]
    /\ ret' = NoRet
    /\ UNCHANGED <<jobs, proc, sigBlocked, worker, bar, finLog, freeLog, walk,
                   used>>
    /\ UNCHANGED others

\* Whether select() finds something to read() for job p: a job without a
\* pipe, or a pipe with nothing in it, makes select() time out or read()
\* return 0 (end of file).
HasData(p) == job[p].fd # NO_JOB_ID /\ proc[job[p].fd].pend > 0

\* job_check(), lines 233-247: select() finds a block in the pipe, read()
\* takes it and it is shown unless skip_errors is set.
JobCheckRead ==
    /\ ui.pc = "select"
    /\ HasData(ui.p)
    /\ proc' = [proc EXCEPT ![job[ui.p].fd].pend = @ - 1]
    /\ ui' = [ui EXCEPT !.pc = IF ShouldPrompt(ui.p)
                               THEN "prompt_read" ELSE "select"]
    /\ ret' = NoRet
    /\ UNCHANGED <<jobs, job, sigBlocked, worker, bar, finLog, freeLog, walk,
                   used>>
    /\ UNCHANGED others

\* job_check(), line 245: prompt_error_msg() for a block read from the pipe
\* returns r.
PromptReadReturn(r) ==
    /\ ui.pc = "prompt_read"
    /\ ui.call = "none"
    /\ job' = [job EXCEPT ![ui.p].skip_errors = r]
    /\ ui' = [ui EXCEPT !.pc = "select"]
    /\ ret' = NoRet
    /\ UNCHANGED <<jobs, proc, sigBlocked, worker, bar, finLog, freeLog, walk,
                   used>>
    /\ UNCHANGED others

\* Mutant of IsFinished: a command whose execve() failed is kept in the list,
\* as if to be run again.
IsFinishedUnlessExecFailed(p) ==
    ~job[p].running /\ job[p].exit_code # ExecFailed

\* Line 174: whether the walk removes job p.
IsFinished(p) == ~job[p].running

\* Mutant of UnlinkHead: prev is not looked at, the head always moves.
UnlinkHeadAlways(head, prev, p) == job[p].next

\* Lines 177-180: head of the walked list after unlinking p.
UnlinkHead(head, prev, p) == IF prev # NULL THEN head ELSE job[p].next

\* Mutant of UnlinkJob: the predecessor keeps its link to p.
UnlinkJobNot(prev, p) == job

\* Lines 177-180: the objects after unlinking p from its predecessor.
UnlinkJob(prev, p) ==
    IF prev # NULL THEN [job EXCEPT ![prev].next = job[p].next] ELSE job

\* job_free(): the pipe is closed and the job_t is released.
JobFree(objs, j) == [objs EXCEPT ![j] = FreedJob]

\* job_check() ends as there is nothing (more) to read, and
\* check_background_jobs(), lines 173-195: a finished job is unlinked, taken
\* off the job bar and freed; the walk moves on.
Reap ==
    /\ ui.pc = "select"
    /\ ~HasData(ui.p)
    /\ LET p == ui.p IN
       /\ walk' = [walk EXCEPT !.fin = IF job[p].running THEN @ ELSE @ \cup {p}]
       /\ IF IsFinished(p)
          THEN /\ job' = JobFree(UnlinkJob(ui.prev, p), p)
               /\ ui' = [ui EXCEPT !.head = UnlinkHead(ui.head, ui.prev, p),
                                   !.p = job[p].next, !.pc = "loop"]
               /\ bar' = IF job[p].type = "op" THEN bar \ {p} ELSE bar
               /\ freeLog' = [freeLog EXCEPT ![p] = Append(@, job[p].running)]
               /\ proc' = IF job[p].fd # NO_JOB_ID
                          THEN [proc EXCEPT ![job[p].fd].pend = 0]
                          ELSE proc
               /\ ret' = Returned("job_free", job[p].exit_code, p, NoSnap)
          ELSE /\ ui' = [ui EXCEPT !.prev = p, !.p = job[p].next,
                                   !.pc = "loop"]
               /\ ret' = NoRet
               /\ UNCHANGED <<job, bar, freeLog, proc>>
    /\ UNCHANGED <<jobs, sigBlocked, worker, finLog, used>>
    /\ UNCHANGED others

\* The UI thread once a walk has ended: between two calls, or back in the
\* prompt from which the walk was started.
AfterWalk ==
    IF ui.stack = <<>> THEN IdleUi
    ELSE LET f == ui.stack[Len(ui.stack)]
         IN  [ui EXCEPT !.pc = f.pc, !.head = f.head, !.prev = f.prev,
                        !.p = f.p, !.shown = f.shown,
                        !.stack = SubSeq(@, 1, Len(@) - 1)]

\* The record of the walks once a walk has ended and dropped the jobs that
\* were in the list of jobs when it reattached its own.
WalkAfterWalk ==
    LET dropped == walk.lost \cup Range(List(jobs)) IN
    IF ui.stack = <<>> THEN [NoWalk EXCEPT !.lost = dropped]
    ELSE LET f == ui.stack[Len(ui.stack)]
         IN  [orig |-> f.orig, fin |-> f.fin, lost |-> dropped]

\* Line 198: assert(jobs == NULL).
ListIsUnused == jobs = NULL

\* check_background_jobs(), lines 198-201: the walked list becomes the list
\* of jobs again and SIGCHLD is unblocked.  When the assertion of line 198
\* does not hold, a build with assertions aborts and a build without them
\* (NDEBUG) goes on.
CheckBackgroundJobsExit ==
    /\ ui.pc = "loop"
    /\ ui.p = NULL
    /\ \/ /\ jobs' = ui.head
          /\ BgJobsUnfreeze
          /\ ui' = AfterWalk
          /\ walk' = WalkAfterWalk
          /\ ret' = Returned("check_background_jobs", 0, NULL, NoSnap)
       \/ /\ ~ListIsUnused
          /\ ui' = [ui EXCEPT !.pc = "aborted"]
          /\ ret' = Returned("abort", 0, NULL, NoSnap)
          /\ UNCHANGED <<jobs, sigBlocked, walk>>
    /\ UNCHANGED <<job, proc, worker, bar, finLog, freeLog, used>>
    /\ UNCHANGED others

(* ------------------------- bg_has_active_jobs() ----------------------- *)

\* Lines 917-924: the number of running operations in the list at h.
BgOpCount(h) ==
    Cardinality({j \in Range(List(h)) :
                    job[j].running /\ job[j].type = "op"})

\* bg_has_active_jobs(): 1 when the list cannot be frozen, else whether the
\* list of jobs has a running operation; SIGCHLD is unblocked at the end.
BgHasActiveJobs ==
    /\ AtRest
    /\ \E ok \in Outcomes :
          /\ used' = Faults(ok)
          /\ IF ok
             THEN /\ BgJobsUnfreeze
                  /\ ret' = Returned("bg_has_active_jobs",
                                     IF BgOpCount(jobs) > 0 THEN 1 ELSE 0,
                                     NULL, NoSnap)
             ELSE /\ BgJobsFreeze(ok)
                  /\ ret' = Returned("bg_has_active_jobs", 1, NULL, NoSnap)
    /\ UNCHANGED <<jobs, job, proc, ui, worker, bar, finLog, freeLog, walk>>
    /\ UNCHANGED others

(* ----------------------- start_background_job() ----------------------- *)

\* add_background_job(pid, cmd, fd, type), lines 842-865: the new job_t,
\* linked in front of the list.
NewJobObj(pid, fd, type) ==
    [st |-> "live", type |-> type, pid |-> pid, next |-> jobs, fd |-> fd,
     skip_errors |-> FALSE, running |-> TRUE, exit_code |-> Unset,
     error |-> <<>>]

\* add_background_job(): the objects once job n is created.
AddBackgroundJob(n, pid, fd, type) ==
    [job EXCEPT ![n] = NewJobObj(pid, fd, type)]

\* start_background_job(cmd, skip_errors), lines 648-665: the command, the
\* pipe and the child; a failure of any of them returns -1.
StartBackgroundJobFork ==
    /\ AtRest
    /\ NewJob <= lim.jobs
    /\ NewPid <= lim.jobs
    /\ \E skip \in BOOLEAN, step \in {"command", "pipe", "fork", "parent"} :
          /\ step # "parent" => FALSE \in Outcomes
          /\ used' = Faults(step = "parent")
          /\ IF step = "parent"
             THEN /\ proc' = [proc EXCEPT ![NewPid].st = "running"]
                  /\ ui' = [ui EXCEPT !.call = "forked", !.pid = NewPid,
                                      !.skip = skip, !.snap = Registry]
                  /\ ret' = NoRet
             ELSE /\ ret' = Returned("start_background_job", -1, NULL,
                                     Registry)
                  /\ UNCHANGED <<proc, ui>>
    /\ UNCHANGED <<jobs, job, sigBlocked, worker, bar, finLog, freeLog, walk>>
    /\ UNCHANGED others

\* Lines 758-761: skip_errors of the job that was registered.
SetSkipErrors(objs, j, skip) == [objs EXCEPT ![j].skip_errors = skip]

\* Mutant of HeadAfterAdd: the head is moved before the result of malloc()
\* is looked at.
HeadAfterAddUnchecked(ok, n) == n

\* Lines 709-714: the list head once add_background_job() returned; `ok` is
\* whether it allocated the job_t n.
HeadAfterAdd(ok, n) == IF ok THEN n ELSE jobs

\* start_background_job(), lines 707-762, in the parent: the job is
\* registered and gets its skip_errors; -1 if the job_t cannot be allocated.
StartBackgroundJobAdd ==
    /\ ui.call = "forked"
    /\ \E ok \in Outcomes :
          /\ used' = Faults(ok)
          /\ jobs' = HeadAfterAdd(ok, NewJob)
          /\ IF ok
             THEN /\ job' = SetSkipErrors(
                               AddBackgroundJob(NewJob, ui.pid, ui.pid, "cmd"),
                               NewJob, ui.skip)
                  /\ ret' = Returned("start_background_job", 0, NewJob, ui.snap)
             ELSE /\ ret' = Returned("start_background_job", -1, NULL, ui.snap)
                  /\ UNCHANGED job
    /\ ui' = [ui EXCEPT !.call = "none", !.pid = 0, !.skip = FALSE,
                        !.snap = NoSnap]
    /\ UNCHANGED <<proc, sigBlocked, worker, bar, finLog, freeLog, walk>>
    /\ UNCHANGED others

(* ----------------------------- bg_execute() --------------------------- *)

\* background_task_bootstrap(), lines 874-878: the new thread has made the
\* job its current job and runs the routine.
Bootstrap(j) == [pc |-> "run", cur |-> j]

\* Lines 790-801: whether bg_execute() gives up at this step leaving the job
\* it registered as it is.
LeavesJobAsIs(step) == step \in {"attr_init", "attr_setdetachstate"}

\* Lines 812-820: the job after pthread_create() failed.
MarkFailed(objs, j) == [objs EXCEPT ![j].running = FALSE, ![j].exit_code = 1]

\* bg_execute(descr, op_descr, total, important, task_func, args): `step` is
\* the call that fails, or "thread" when the thread is started.
BgExecute ==
    /\ AtRest
    /\ NewJob <= lim.jobs
    /\ \E important \in BOOLEAN,
          step \in {"malloc", "add_background_job", "attr_init",
                    "attr_setdetachstate", "pthread_create", "thread"} :
          LET n == NewJob
              type == IF important THEN "op" ELSE "task"
              added == AddBackgroundJob(n, WRONG_PID, NO_JOB_ID, type)
          IN  /\ step # "thread" => FALSE \in Outcomes
              /\ used' = Faults(step = "thread")
              /\ ret' = Returned("bg_execute",
                                 IF step = "thread" THEN 0 ELSE 1,
                                 IF step \in {"malloc", "add_background_job"}
                                 THEN NULL ELSE n,
                                 NoSnap)
              /\ IF step \in {"malloc", "add_background_job"}
                 THEN UNCHANGED <<jobs, job, worker, bar, finLog>>
                 ELSE IF LeavesJobAsIs(step)
                 THEN /\ job' = added
                      /\ jobs' = n
                      /\ UNCHANGED <<worker, bar, finLog>>
                 ELSE IF step = "pthread_create"
                 THEN /\ job' = MarkFailed(added, n)
                      /\ jobs' = n
                      /\ bar' = IF important THEN bar \cup {n} ELSE bar
                      /\ finLog' = [finLog EXCEPT
                                      ![n] = Append(@, "bg_execute")]
                      /\ UNCHANGED worker
                 ELSE /\ job' = added
                      /\ jobs' = n
                      /\ bar' = IF important THEN bar \cup {n} ELSE bar
                      /\ worker' = [worker EXCEPT ![n] = Bootstrap(n)]
                      /\ UNCHANGED finLog
    /\ UNCHANGED <<proc, sigBlocked, ui, freeLog, walk>>
    /\ UNCHANGED others

(* ----------------------------- worker threads ------------------------- *)

\* error_msg(title, text) on a thread whose current job is cur: with no
\* current job show_error_msg() is called and no job changes, else
\* replace_string(&job->error, text).
ErrorMsg(objs, cur, text) ==
    IF cur = NULL THEN objs ELSE [objs EXCEPT ![cur].error = <<text>>]

\* error_msg() on the UI thread, whose current job is NULL since
\* init_background(): background_and_wait_for_errors() reports that pipe()
\* failed (lines 389-393); the error is shown at once.
UiErrorMsg ==
    /\ AtRest
    /\ FALSE \in Outcomes
    /\ used' = Faults(FALSE)
    /\ job' = ErrorMsg(job, NULL, 0)
    /\ ret' = Returned("show_error_msg", -1, NULL, NoSnap)
    /\ UNCHANGED <<jobs, proc, sigBlocked, ui, worker, bar, finLog, freeLog,
                   walk>>
    /\ UNCHANGED others

\* The routine of the worker (line 878) reports an error; the n-th error of a
\* run has the text n.
WorkerErrorMsg(j) ==
    /\ worker[j].pc = "run"
    /\ used.errs < lim.errs
    /\ job' = ErrorMsg(job, worker[j].cur, used.errs + 1)
    /\ used' = [used EXCEPT !.errs = @ + 1]
    /\ ret' = NoRet
    /\ UNCHANGED <<jobs, proc, sigBlocked, ui, worker, bar, finLog, freeLog,
                   walk>>
    /\ UNCHANGED others

\* background_task_bootstrap(), lines 878-881: the routine returns and the
\* job is marked as not running.
WorkerFinished(j) ==
    /\ worker[j].pc = "run"
    /\ job' = [job EXCEPT ![j].running = FALSE]
    /\ finLog' = [finLog EXCEPT ![j] = Append(@, "background_task_bootstrap")]
    /\ worker' = [worker EXCEPT ![j].pc = "exit_code"]
    /\ ret' = NoRet
    /\ UNCHANGED <<jobs, proc, sigBlocked, ui, bar, freeLog, walk, used>>
    /\ UNCHANGED others

\* background_task_bootstrap(), lines 882-886: exit_code is set and the
\* thread ends.
WorkerExitCode(j) ==
    /\ worker[j].pc = "exit_code"
    /\ job' = [job EXCEPT ![j].exit_code = 0]
    /\ worker' = [worker EXCEPT ![j] = [NoWorker EXCEPT !.pc = "done"]]
    /\ ret' = NoRet
    /\ UNCHANGED <<jobs, proc, sigBlocked, ui, bar, finLog, freeLog, walk,
                   used>>
    /\ UNCHANGED others

(* ----------------------------- specification -------------------------- *)

Next ==
    \/ CheckBackgroundJobsEnter
    \/ JobCheckError
    \/ \E r \in BOOLEAN : PromptErrorReturn(r)
    \/ JobCheckRead
    \/ \E r \in BOOLEAN : PromptReadReturn(r)
    \/ Reap
    \/ CheckBackgroundJobsExit
    \/ BgHasActiveJobs
    \/ StartBackgroundJobFork
    \/ StartBackgroundJobAdd
    \/ BgExecute
    \/ UiErrorMsg
    \/ \E j \in JobIds : WorkerErrorMsg(j)
    \/ \E j \in JobIds : WorkerFinished(j)
    \/ \E j \in JobIds : WorkerExitCode(j)
    \/ \E pid \in Pids : ChildWrite(pid)
    \/ \E pid \in Pids, code \in ExitCodes : ChildExit(pid, code)
    \/ \E pid \in Pids : ReceivedSigchld(pid)

Spec == Init /\ [][Next]_vars

(* ------------------ background_and_wait_for_status() ------------------ *)

\* A call background_and_wait_for_status(cmd, cancellable, &cancelled): cmd
\* is whether the command is not NULL, cancelled0 what the caller's variable
\* holds.  The cancellation state of the UI is disabled outside the call;
\* while it is enabled the user can request cancellation.
WaitInit ==
    /\ JobsInit
    /\ lim \in {l \in Limits : l.jobs = MaxJobs}
    /\ \E cmd, cancellable \in BOOLEAN, cancelled0 \in {0, 1} :
          ws = [NoWait EXCEPT !.pc = "call", !.cmd = cmd,
                              !.cancellable = cancellable,
                              !.cancelled = cancelled0,
                              !.cancelled0 = cancelled0]
    /\ we = NoErrors
    /\ bgop = NoBgOp
    /\ tm = NoMenu

\* Lines 299-333: *cancelled is reset, a NULL command returns 1, a failed
\* fork() returns -1; else the child runs and cancellation is enabled.
WaitStart ==
    /\ ws.pc = "call"
    /\ \E forks \in BOOLEAN :
          LET reset == [ws EXCEPT !.cancelled = IF ws.cancellable THEN 0 ELSE @]
          IN  IF ~ws.cmd
              THEN ws' = [reset EXCEPT !.pc = "done", !.status = 1]
              ELSE IF ~forks
              THEN ws' = [reset EXCEPT !.pc = "done", !.status = -1]
              ELSE ws' = [reset EXCEPT !.pc = "wait", !.forked = TRUE,
                             !.child = "running",
                             !.cancellation = IF ws.cancellable
                                              THEN "enabled" ELSE @]
    /\ UNCHANGED <<jobVars, we, bgop, tm>>

\* The user asks to cancel (ui_cancellation_request()), which is recorded
\* only while cancellation is enabled.
WaitCancelRequest ==
    /\ ws.cancellation = "enabled"
    /\ ws' = [ws EXCEPT !.cancellation = "requested", !.requested = TRUE]
    /\ UNCHANGED <<jobVars, we, bgop, tm>>

\* The child exits, by itself or on the signal it was sent.
WaitChildExit(code) ==
    /\ ws.child = "running"
    /\ ws' = [ws EXCEPT !.child = "exited", !.code = code]
    /\ UNCHANGED <<jobVars, we, bgop, tm>>

\* process_cancel_request(pid): the child is asked to terminate if
\* cancellation was requested.
ProcessCancelRequest(w) ==
    [w EXCEPT !.killed = @ \/ w.cancellation = "requested"]

\* Mutant of AfterWaitError: an interrupted wait ends the loop as well.
AfterWaitErrorBreaks(w, eintr) == [w EXCEPT !.pc = "end"]

\* Lines 337-344: waitpid() returned -1; an interruption (EINTR) passes the
\* cancellation request on and waits again, another error ends the loop with
\* status -1.
AfterWaitError(w, eintr) ==
    IF eintr
    THEN ProcessCancelRequest([w EXCEPT !.eintr = @ + 1])
    ELSE [w EXCEPT !.pc = "end", !.status = -1, !.failed = TRUE]

\* Line 335: one call of waitpid(pid, &status, 0).  It returns the child once
\* the child has exited; while the child runs it blocks until a signal
\* interrupts it; it can fail otherwise.
WaitPid ==
    /\ ws.pc = "wait"
    /\ \/ /\ ws.child = "exited"
          /\ ws' = [ws EXCEPT !.pc = "end", !.child = "reaped",
                              !.status = ws.code]
       \/ /\ ws.child = "running"
          /\ ws.eintr < MaxEintr
          /\ ws' = AfterWaitError(ws, TRUE)
       \/ ws' = AfterWaitError(ws, FALSE)
    /\ UNCHANGED <<jobVars, we, bgop, tm>>

\* Lines 347-358: *cancelled is set if cancellation was requested,
\* cancellation is disabled and the status is returned.
WaitEnd ==
    /\ ws.pc = "end"
    /\ ws' = [ws EXCEPT
                 !.pc = "done",
                 !.cancelled = IF ws.cancellable
                                  /\ ws.cancellation = "requested"
                               THEN 1 ELSE @,
                 !.cancellation = IF ws.cancellable THEN "disabled" ELSE @]
    /\ UNCHANGED <<jobVars, we, bgop, tm>>

WaitNext ==
    \/ WaitStart
    \/ WaitCancelRequest
    \/ \E code \in ExitCodes : WaitChildExit(code)
    \/ WaitPid
    \/ WaitEnd

WaitSpec == WaitInit /\ [][WaitNext]_vars

(* ------------------ background_and_wait_for_errors() ------------------ *)

\* Line 411: char linebuf[80].
LineBufSize == 80
\* Line 410: char buf[80*10].
BufSize == 80 * 10

\* What one read() of the error stream can return: a lone newline, a line, a
\* newline followed by a character, and as many bytes as were asked for.
Kinds == {"nl", "err", "nle", "big"}

Chunk(kind) ==
    CASE kind = "nl" -> <<"\n">>
      [] kind = "err" -> <<"e", "r", "r", "\n">>
      [] kind = "nle" -> <<"\n", "e">>
      [] kind = "big" -> [i \in 1..(LineBufSize - 1) |-> "x"]

\* What the child can end with: exit(0), exit(3), a signal.
ChildStatuses ==
    {ExitedOk, [exited |-> TRUE, code |-> 3], [exited |-> FALSE, code |-> 0]}

\* The text of error_msg("File pipe error", "Error creating pipe").
PipeError ==
    <<"E", "r", "r", "o", "r", " ", "c", "r", "e", "a", "t", "i", "n", "g",
      " ", "p", "i", "p", "e">>

\* A call background_and_wait_for_errors(cmd, cancellable).  Enabling and
\* disabling cancellation around the loop changes nothing of the result.
ErrorsInit ==
    /\ JobsInit
    /\ lim \in {l \in Limits : l.jobs = MaxJobs}
    /\ ws = NoWait
    /\ we = [NoErrors EXCEPT !.pc = "call"]
    /\ bgop = NoBgOp
    /\ tm = NoMenu

\* Lines 387-423: a failed pipe() reports an error and returns -1, a failed
\* fork() returns -1; else the parent starts to read with an empty buf.
ErrorsStart ==
    /\ we.pc = "call"
    /\ \E pipes, forks \in BOOLEAN :
          IF ~pipes
          THEN we' = [we EXCEPT !.pc = "done", !.result = -1,
                         !.reported = Append(@, [title |-> "File pipe error",
                                                 text |-> PipeError])]
          ELSE IF ~forks
          THEN we' = [we EXCEPT !.pc = "done", !.result = -1]
          ELSE we' = [we EXCEPT !.pc = "read", !.forked = TRUE]
    /\ UNCHANGED <<jobVars, ws, bgop, tm>>

\* Line 426: read_empty_line.
IsEmptyLine(line) == Len(line) = 1 /\ line[1] = "\n"

\* The first n elements of s, all of s if it has less.
Take(s, n) == SubSeq(s, 1, IF n < Len(s) THEN n ELSE Len(s))

\* strncat(dst, src, n).
Strncat(dst, src, n) == dst \o Take(src, n)

\* Mutant of ReadResult: a read leaves the result as it is.
ReadResultKept(result) == result

\* Line 427: result = -1.
ReadResult(result) == -1

\* Lines 424-436: one read() that returned the bytes of a chunk.
ErrorsRead(kind) ==
    /\ we.pc = "read"
    /\ IF kind = "big" THEN we.big < MaxBig ELSE we.small < MaxSmall
    /\ LET line == Chunk(kind)
       IN  we' = [we EXCEPT
                     !.result = ReadResult(@),
                     !.buf = IF IsEmptyLine(line)
                             THEN @
                             ELSE Strncat(@, line, BufSize - Len(@) - 1),
                     !.reads = Append(@, kind),
                     !.big = IF kind = "big" THEN @ + 1 ELSE @,
                     !.small = IF kind = "big" THEN @ ELSE @ + 1]
    /\ UNCHANGED <<jobVars, ws, bgop, tm>>

\* Lines 424, 437-460: read() returned 0 or -1, which ends the loop; the
\* child ends with some status; a result that is not 0 reports buf, else the
\* result is taken from the status of the child.
ErrorsEnd(status) ==
    /\ we.pc = "read"
    /\ we' = [we EXCEPT
                 !.pc = "done",
                 !.status = status,
                 !.reported =
                     IF we.result # 0
                     THEN Append(@, [title |-> "Background Process Error",
                                     text |-> we.buf])
                     ELSE @,
                 !.result =
                     IF we.result # 0 THEN @
                     ELSE IF status.exited THEN status.code ELSE -1]
    /\ UNCHANGED <<jobVars, ws, bgop, tm>>

ErrorsNext ==
    \/ ErrorsStart
    \/ \E kind \in Kinds : ErrorsRead(kind)
    \/ \E status \in ChildStatuses : ErrorsEnd(status)

ErrorsSpec == ErrorsInit /\ [][ErrorsNext]_vars

(* --------------------------- bg_op_set_descr() ------------------------ *)

\* The descriptions that are set.
Descrs == 1..2

\* The bg_op of one operation; a worker thread ("setter") calls
\* bg_op_set_descr() and the UI thread ("reader") reads the description under
\* the lock.
DescrInit ==
    /\ JobsInit
    /\ lim \in {l \in Limits : l.jobs = MaxJobs}
    /\ ws = NoWait
    /\ we = NoErrors
    /\ bgop = NoBgOp
    /\ tm = NoMenu

\* Mutant of SetDescrSteps: the notification is sent before the lock is
\* released.
SetDescrStepsNotifyLocked == <<"lock", "replace", "changed", "unlock">>

\* bg_op_set_descr(), lines 971-975: the calls it makes, in order.
SetDescrSteps == <<"lock", "replace", "unlock", "changed">>

\* The call a bg_op_set_descr() in progress makes next.
SetDescrStep == IF bgop.i = 0 THEN "none" ELSE SetDescrSteps[bgop.i]

\* The position after call i of bg_op_set_descr(): the next call, or 0 when
\* the function returns.
After(i) == IF i = Len(SetDescrSteps) THEN 0 ELSE i + 1

\* bg_op_set_descr(bg_op, descr) is called.
BgOpSetDescr(descr) ==
    /\ bgop.i = 0
    /\ bgop.sets < MaxSets
    /\ bgop' = [bgop EXCEPT !.i = 1, !.arg = descr, !.sets = @ + 1]
    /\ UNCHANGED <<jobVars, ws, we, tm>>

\* bg_op_lock(): pthread_mutex_lock(&job->bg_op_guard) returns once the lock
\* is free.
BgOpLock ==
    /\ SetDescrStep = "lock"
    /\ bgop.lock = "none"
    /\ bgop' = [bgop EXCEPT !.lock = "setter", !.i = After(@)]
    /\ UNCHANGED <<jobVars, ws, we, tm>>

\* Line 972: replace_string(&bg_op->descr, descr).
ReplaceDescr ==
    /\ SetDescrStep = "replace"
    /\ bgop' = [bgop EXCEPT !.descr = bgop.arg, !.i = After(@)]
    /\ UNCHANGED <<jobVars, ws, we, tm>>

\* bg_op_unlock(): pthread_mutex_unlock(&job->bg_op_guard).
BgOpUnlock ==
    /\ SetDescrStep = "unlock"
    /\ bgop' = [bgop EXCEPT !.lock = "none", !.i = After(@)]
    /\ UNCHANGED <<jobVars, ws, we, tm>>

\* bg_op_changed(): ui_stat_job_bar_changed(bg_op) runs on the thread of the
\* caller and takes the lock to read the bg_op.
BgOpChanged ==
    /\ SetDescrStep = "changed"
    /\ ~bgop.inChanged
    /\ bgop.lock = "none"
    /\ bgop' = [bgop EXCEPT !.lock = "setter", !.inChanged = TRUE]
    /\ UNCHANGED <<jobVars, ws, we, tm>>

\* ui_stat_job_bar_changed() has read the description, releases the lock and
\* returns.
JobBarChanged ==
    /\ SetDescrStep = "changed"
    /\ bgop.inChanged
    /\ bgop' = [bgop EXCEPT !.shown = bgop.descr, !.lock = "none",
                            !.inChanged = FALSE, !.i = After(@)]
    /\ UNCHANGED <<jobVars, ws, we, tm>>

\* The UI thread takes the lock (bg_op_lock()) and reads the description.
ReaderLock ==
    /\ bgop.lock = "none"
    /\ bgop' = [bgop EXCEPT !.lock = "reader", !.seen = bgop.descr]
    /\ UNCHANGED <<jobVars, ws, we, tm>>

\* The UI thread releases the lock (bg_op_unlock()).
ReaderUnlock ==
    /\ bgop.lock = "reader"
    /\ bgop' = [bgop EXCEPT !.lock = "none"]
    /\ UNCHANGED <<jobVars, ws, we, tm>>

DescrNext ==
    \/ \E descr \in Descrs : BgOpSetDescr(descr)
    \/ BgOpLock
    \/ ReplaceDescr
    \/ BgOpUnlock
    \/ BgOpChanged
    \/ JobBarChanged
    \/ ReaderLock
    \/ ReaderUnlock

DescrSpec == DescrInit /\ [][DescrNext]_vars

(* ----------------------- one poll and its drain ----------------------- *)

\* The jobs of the runs in which the drain of job_check() is looked at: two
\* jobs, one error of a worker, one failure of a call of the system; what the
\* children write is bounded by the pipe alone.
DrainLimits == [jobs |-> 2, errs |-> 1, chunks |-> 0, faults |-> 1]

DrainInit ==
    /\ JobsInit
    /\ lim = DrainLimits
    /\ ws = NoWait
    /\ we = NoErrors
    /\ bgop = NoBgOp
    /\ tm = NoMenu

\* The child writes a block to its error stream whenever the pipe has room
\* for it: a command that keeps writing.
ChildKeepsWriting(pid) ==
    /\ proc[pid].st = "running"
    /\ proc[pid].pend < MaxPend
    /\ proc' = [proc EXCEPT ![pid].pend = @ + 1]
    /\ ret' = NoRet
    /\ UNCHANGED <<jobs, job, sigBlocked, ui, worker, bar, finLog, freeLog,
                   walk, used>>
    /\ UNCHANGED others

\* Whether select() reports the pipe of job p as readable: it holds a block,
\* or its write end is closed.
IsReadable(p) ==
    /\ job[p].fd # NO_JOB_ID
    /\ proc[job[p].fd].pend > 0 \/ proc[job[p].fd].st # "running"

\* job_check(), lines 233-247: select() reports the pipe, read() fails
\* (nread < 0): neither branch is taken and select() is called again.
JobCheckReadFails ==
    /\ ui.pc = "select"
    /\ IsReadable(ui.p)
    /\ FALSE \in Outcomes
    /\ used' = Faults(FALSE)
    /\ ret' = NoRet
    /\ UNCHANGED <<jobs, job, proc, sigBlocked, ui, worker, bar, finLog,
                   freeLog, walk>>
    /\ UNCHANGED others

\* The calls the UI thread makes between two polls; no call is made from an
\* error prompt here.
DrainCall ==
    /\ ui.pc = "idle"
    /\ \/ CheckBackgroundJobsEnter
       \/ StartBackgroundJobFork
       \/ BgExecute

\* The steps of a poll that is in progress; the user answers its prompts.
DrainStep ==
    \/ JobCheckError
    \/ \E r \in BOOLEAN : PromptErrorReturn(r)
    \/ JobCheckRead
    \/ JobCheckReadFails
    \/ \E r \in BOOLEAN : PromptReadReturn(r)
    \/ Reap
    \/ CheckBackgroundJobsExit

\* What goes on beside the UI thread: workers and children.
DrainOthers ==
    \/ \E j \in JobIds : WorkerErrorMsg(j)
    \/ \E j \in JobIds : WorkerFinished(j)
    \/ \E j \in JobIds : WorkerExitCode(j)
    \/ \E pid \in Pids : ChildKeepsWriting(pid)
    \/ \E pid \in Pids, code \in ExitCodes : ChildExit(pid, code)
    \/ \E pid \in Pids : ReceivedSigchld(pid)

DrainNext ==
    \/ DrainCall
    \/ StartBackgroundJobAdd
    \/ DrainStep
    \/ DrainOthers

\* The UI thread goes on with a poll it has started: select() returns after
\* its timeout at the latest, read() of a readable pipe returns.
DrainSpec == DrainInit /\ [][DrainNext]_vars /\ WF_vars(DrainStep)

(* ------------------------------ trash menu ---------------------------- *)

\* What is in an element of an array of strings after free().
Freed == 0

\* The keys the handler is given: L"r" and others.
Keys == {"r", "d", "rr"}

\* The menus of show_trash_menu(): an item for each entry of trash_list, in
\* the order of the list (lines 43-47); item i shows the path of the entry
\* whose trash_name is i.  The menu is shown when it has items; the cursor
\* is on an item; a search may have filled matches.
TrashMenus ==
    {[NoMenu EXCEPT !.items = [i \in 1..n |-> i], !.len = n, !.pos = pos,
                    !.matches = matches,
                    !.matching_entries =
                        Cardinality({i \in 1..Len(matches) : matches[i] # 0}),
                    !.trash = [i \in 1..n |-> i]] :
        n \in 1..MaxItems, pos \in 0..(MaxItems - 1),
        matches \in UNION {[1..k -> {0, 1}] : k \in 0..MaxItems}}

TrashInit ==
    /\ JobsInit
    /\ lim \in {l \in Limits : l.jobs = MaxJobs}
    /\ ws = NoWait
    /\ we = NoErrors
    /\ bgop = NoBgOp
    /\ tm \in {m \in TrashMenus :
                 /\ m.pos < m.len
                 /\ Len(m.matches) \in {0, m.len}}

\* memmove(a + dst, a + src, n elements) within the array a.
Memmove(a, dst, src, n) ==
    [i \in 1..Len(a) |->
        IF dst < i /\ i <= dst + n THEN a[i - dst + src] ELSE a[i]]

\* remove_from_string_array(array, len, pos): the element is freed and the
\* elements after it move down by one.
RemoveFromStringArray(array, len, pos) ==
    Memmove([array EXCEPT ![pos + 1] = Freed], pos, pos + 1, (len - 1) - pos)

\* restore_from_trash(trash_name) that succeeded: the entry of that name
\* leaves trash_list.
RestoreFromTrash(trash, name) ==
    LET keep == {i \in 1..Len(trash) : trash[i] # name}
        before(i) == Cardinality({k \in keep : k < i})
    IN  [n \in 1..Cardinality(keep) |->
            trash[CHOOSE i \in keep : before(i) = n - 1]]

\* Mutant of MatchingEntries: the count of matches drops for every item that
\* is removed.
MatchingEntriesDrops(m) ==
    IF m.matches # <<>> THEN m.matching_entries - 1 ELSE m.matching_entries

\* Lines 77-80: matching_entries once the item at the cursor is removed.
MatchingEntries(m) ==
    IF m.matches # <<>> /\ m.matches[m.pos + 1] # 0
    THEN m.matching_entries - 1
    ELSE m.matching_entries

\* Lines 77-82: matches once the item at the cursor is removed.
Matches(m) ==
    IF m.matches # <<>>
    THEN Memmove(m.matches, m.pos, m.pos + 1, (m.len - 1) - m.pos)
    ELSE m.matches

\* move_to_menu_pos(pos, m): the cursor is put on an item of the menu.
MoveToMenuPos(pos, len) ==
    IF len = 0 THEN pos ELSE IF pos > len - 1 THEN len - 1 ELSE pos

\* What of the menu the handler can change.
Shown(m) ==
    [items |-> m.items, len |-> m.len, pos |-> m.pos, matches |-> m.matches,
     matching_entries |-> m.matching_entries]

\* trash_khandler(m, keys) with the cursor on an item; `restored` is whether
\* restore_from_trash() returns 0.
TrashKhandler(keys, restored) ==
    /\ tm.len > 0
    /\ tm.keys < MaxKeys
    /\ LET called == [tm EXCEPT !.key = keys, !.before = Shown(tm),
                                !.restored = keys = "r" /\ restored,
                                !.keys = @ + 1]
       IN  IF keys = "r"
           THEN IF ~restored
                THEN tm' = [called EXCEPT !.failed = tm.items[tm.pos + 1],
                                          !.save_msg = 1,
                                          !.ret = -1]
                ELSE tm' = [called EXCEPT
                              !.trash = RestoreFromTrash(@, tm.trash[tm.pos + 1]),
                              !.items = RemoveFromStringArray(@, tm.len, tm.pos),
                              !.matching_entries = MatchingEntries(tm),
                              !.matches = Matches(tm),
                              !.len = @ - 1,
                              !.pos = MoveToMenuPos(tm.pos, tm.len - 1),
                              !.ret = 1]
           ELSE tm' = [called EXCEPT !.ret = -1]
    /\ UNCHANGED <<jobVars, ws, we, bgop>>

\* The user moves the cursor to another item of the menu.
MenuMove(pos) ==
    /\ pos < tm.len
    /\ pos # tm.pos
    /\ tm' = [tm EXCEPT !.pos = pos]
    /\ UNCHANGED <<jobVars, ws, we, bgop>>

TrashNext ==
    \/ \E keys \in Keys, restored \in BOOLEAN : TrashKhandler(keys, restored)
    \/ \E pos \in 0..(MaxItems - 1) : MenuMove(pos)

TrashSpec == TrashInit /\ [][TrashNext]_vars

(* ------------------------------- claims ------------------------------- *)

\* Jobs of the list of jobs, and of the list a walk has detached.
Linked ==
    Range(List(jobs)) \cup Range(List(ui.head))
       \cup UNION {Range(List(ui.stack[i].head)) : i \in 1..Len(ui.stack)}

\* Who may assign running = 0 in a job of this type.
Finishers(type) ==
    IF type = "cmd" THEN {"add_finished_job"}
    ELSE {"background_task_bootstrap", "bg_execute"}

\* C1: over the life of a job `running` is assigned 0 at most once, by
\* add_finished_job() for a command and by background_task_bootstrap() (or by
\* bg_execute() when no thread exists) for a task or operation; a job that
\* nobody of these marked is running, so the walk of check_background_jobs()
\* never clears the flag, and once it is 0 it stays 0.
C1_RunningClearedOnce ==
    /\ [](\A j \in JobIds :
            /\ Len(finLog[j]) <= 1
            /\ job[j].st = "live" =>
                  /\ job[j].running <=> finLog[j] = <<>>
                  /\ Range(finLog[j]) \subseteq Finishers(job[j].type)
            /\ finLog[j] = <<"bg_execute">> => worker[j].pc = "none"
            /\ finLog[j] = <<"background_task_bootstrap">> =>
                  worker[j].pc \in {"exit_code", "done"})
    /\ [][\A j \in JobIds :
            job[j].st = "live" /\ job'[j].st = "live" /\ ~job[j].running
               => ~job'[j].running]_vars

\* C1 witness: a command marked by add_finished_job() and a thread job marked
\* by its own thread are in the list at the same time.
C1_Witness ==
    \E j, k \in JobIds :
        /\ job[j].st = "live" /\ finLog[j] = <<"add_finished_job">>
        /\ job[k].st = "live" /\ finLog[k] = <<"background_task_bootstrap">>

Kept == SelectSeq(walk.orig, LAMBDA j : j \notin walk.fin)

\* C3: when check_background_jobs() reattaches the list, the list of jobs is
\* the detached list without the jobs whose `running` the walk read as 0, in
\* the same order, and exactly those jobs were freed.
C3_ReapKeepsOrder ==
    [][ui.pc = "loop" /\ ui.p = NULL /\ ui' # ui /\ ui'.pc # "aborted" =>
          /\ List(jobs)' = Kept
          /\ \A j \in Range(walk.orig) : j \in walk.fin <=> job'[j].st = "freed"
      ]_vars

\* C3 witness: a walk over three jobs saw the first and the second finished
\* and the third running, and is about to reattach.
C3_Witness ==
    /\ ui.pc = "loop" /\ ui.p = NULL
    /\ Len(walk.orig) = 3
    /\ walk.fin = {walk.orig[1], walk.orig[2]}

\* C4: when bg_execute() returns an error for a job it registered, that job
\* is already marked as not running, with a nonzero exit code.
C4_FailedStartIsFinished ==
    ret.op = "bg_execute" /\ ret.val # 0 /\ ret.job # NULL =>
        /\ ~job[ret.job].running
        /\ job[ret.job].exit_code \notin {0, Unset}

\* Whether the step takes the buffered error of job j to the user: job_check()
\* drops it because skip_errors is set, or the prompt that showed this very
\* text returns.
TakesError(j) ==
    /\ ui.p = j
    /\ \/ ui.pc = "loop" /\ job[j].skip_errors
       \/ ui.pc = "prompt_error" /\ ui.shown = job[j].error

\* C5: an error text that a worker put in the buffer of its job leaves the
\* buffer only by being taken to the user by job_check(): it is not
\* overwritten, not cleared unseen and not freed with the job.
C5_NoErrorDropped ==
    [][\A j \in JobIds :
          job[j].error # <<>> /\ job'[j].error # job[j].error => TakesError(j)
      ]_vars

\* Whether the step opens an error prompt for job j.
OpensPrompt(j) ==
    /\ ui.p = j
    /\ ui.pc \notin {"prompt_error", "prompt_read"}
    /\ ui'.pc \in {"prompt_error", "prompt_read"}

\* C6: skip_errors of a job, once set, stays set until the job is freed and no
\* prompt is opened for the job any more; skip_errors of a job changes only
\* when the job is created, when a prompt for this job returns and when it is
\* freed.
C6_SkipErrorsSticky ==
    [][\A j \in JobIds :
          /\ job[j].st = "live" /\ job[j].skip_errors =>
                /\ job'[j].st = "live" => job'[j].skip_errors
                /\ ~OpensPrompt(j)
          /\ job'[j].skip_errors # job[j].skip_errors =>
                \/ job[j].st = "none"
                \/ job'[j].st = "freed"
                \/ ui.p = j /\ ui.pc \in {"prompt_error", "prompt_read"}
      ]_vars

\* C6 witness: job_check() meets an error of a job whose skip_errors a prompt
\* has set, while another job of the list has it clear.
C6_Witness ==
    /\ ui.pc \in {"loop", "select"} /\ ui.p # NULL
    /\ job[ui.p].skip_errors
    /\ \/ ui.pc = "loop" /\ job[ui.p].error # <<>>
       \/ ui.pc = "select" /\ HasData(ui.p)
    /\ \E k \in JobIds : k # ui.p /\ job[k].st = "live" /\ ~job[k].skip_errors

\* C10: when start_background_job() returns an error, the head of the list,
\* the set of jobs, their links and what the UI thread stored in them are what
\* they were when it was called.
C10_FailedStartLeavesRegistry ==
    ret.op = "start_background_job" /\ ret.val # 0 => Registry = ret.snap

\* C10 witness: start_background_job() failed after fork(), when it could not
\* allocate the job, with a job already in the list.
C10_Witness ==
    /\ ret.op = "start_background_job" /\ ret.val # 0
    /\ ret.snap.head # NULL
    /\ \E pid \in Pids :
          /\ proc[pid].st # "none"
          /\ \A j \in JobIds : job[j].pid # pid

\* C7: once the child is forked, background_and_wait_for_status() returns
\* only when waitpid() has reaped the child, and then with its status, or when
\* waitpid() failed with something else than an interruption, and then with
\* -1; the child is asked to terminate only on a cancellation request; a
\* cancellable call sets *cancelled to 1 if cancellation was requested during
\* the call and to 0 if not, another call leaves it alone.
C7_WaitReapsChild ==
    /\ ws.killed => ws.requested /\ ws.cancellable
    /\ ws.pc = "done" /\ ws.forked =>
          /\ \/ ws.child = "reaped" /\ ~ws.failed /\ ws.status = ws.code
             \/ ws.failed /\ ws.status = -1
          /\ ws.cancellable => (ws.cancelled = 1 <=> ws.requested)
          /\ ws.cancellable => ws.cancelled \in {0, 1}
          /\ ~ws.cancellable => ws.cancelled = ws.cancelled0

\* C7 witness: a cancellable call whose variable held 1 returned after
\* cancellation was requested, the child was asked to terminate, the wait was
\* interrupted MaxEintr times and the child was reaped in the end.
C7_Witness ==
    /\ ws.pc = "done" /\ ws.forked /\ ws.cancellable
    /\ ws.cancelled0 = 1 /\ ws.cancelled = 1
    /\ ws.killed /\ ws.eintr = MaxEintr
    /\ ws.child = "reaped"

\* The bytes the child wrote, from the reads that returned them.
RECURSIVE Text(_)
Text(reads) ==
    IF reads = <<>> THEN <<>> ELSE Chunk(Head(reads)) \o Text(Tail(reads))

\* The message: the text without the reads of a lone newline, cut to what buf
\* holds.
Message(reads) ==
    Take(Text(SelectSeq(reads, LAMBDA kind : kind # "nl")), BufSize - 1)

BackgroundError(text) == [title |-> "Background Process Error", text |-> text]

\* C8 (as the code has it): once the child is forked,
\* background_and_wait_for_errors() accumulates what it reads into one
\* message, leaving out each read of a lone newline and what does not fit into
\* buf; it returns -1 and reports the message, once, exactly when a read
\* returned data, be the message empty or not; when nothing was read it
\* reports nothing and returns the exit code of the child, -1 if the child did
\* not exit.
C8_ErrorsReportedWhenRead ==
    we.pc = "done" /\ we.forked =>
        /\ we.buf = Message(we.reads)
        /\ we.reads # <<>> =>
              /\ we.result = -1
              /\ we.reported = <<BackgroundError(we.buf)>>
        /\ we.reads = <<>> =>
              /\ we.reported = <<>>
              /\ we.result = IF we.status.exited THEN we.status.code ELSE -1

\* C8 witness: the child wrote lone newlines only; the message is empty, yet
\* it was reported and -1 returned.
C8_Witness ==
    /\ we.pc = "done" /\ we.forked
    /\ we.reads = <<"nl", "nl">>
    /\ we.buf = <<>>
    /\ we.result = -1
    /\ we.reported = <<BackgroundError(<<>>)>>

\* C8 as stated: the call returns -1 and reports the message exactly when the
\* message is not empty; when the message is empty it reports nothing and
\* returns the exit code of the child.
C8_ReportedWhenMessageNotEmpty ==
    we.pc = "done" /\ we.forked =>
        /\ (we.result = -1 /\ we.reported = <<BackgroundError(we.buf)>>)
              <=> we.buf # <<>>
        /\ we.buf = <<>> =>
              /\ we.reported = <<>>
              /\ we.status.exited => we.result = we.status.code

\* C9 (as the code has it): when the child writes text and exits with a code
\* that is not 0, the call returns -1, not the code, and reports one message;
\* the message is the text exactly if no read was a lone newline and the text
\* fits into buf.
C9_OutputHidesExitCode ==
    /\ we.pc = "done" /\ we.forked
    /\ we.reads # <<>>
    /\ we.status.exited /\ we.status.code # 0
    => /\ we.result = -1
       /\ Len(we.reported) = 1
       /\ /\ \A i \in 1..Len(we.reads) : we.reads[i] # "nl"
          /\ Len(Text(we.reads)) < BufSize
          => we.reported[1].text = Text(we.reads)

\* C9 witness: the child wrote "err\n" and exited with 3; the call returned
\* -1 and reported "err\n".
C9_Witness ==
    /\ we.pc = "done" /\ we.forked
    /\ we.reads = <<"err">>
    /\ we.status = [exited |-> TRUE, code |-> 3]
    /\ we.result = -1
    /\ we.reported = <<BackgroundError(<<"e", "r", "r", "\n">>)>>

\* C9 as stated: when the child writes text and exits with a code c that is
\* not 0, the call returns c and the reported message is the text exactly.
C9_ReturnsCodeAndText ==
    /\ we.pc = "done" /\ we.forked
    /\ we.reads # <<>>
    /\ we.status.exited /\ we.status.code # 0
    => /\ we.result = we.status.code
       /\ Len(we.reported) = 1
       /\ we.reported[1].text = Text(we.reads)

\* Operations that were created, are not freed and are running.
ActiveOperations ==
    {j \in JobIds : job[j].st = "live" /\ job[j].type = "op" /\ job[j].running}

\* C11: bg_has_active_jobs() returns 1 whenever an operation that was created
\* and is not freed is running, also when it is called while a walk has the
\* list detached; it returns 0 only when there is none; when the list was
\* frozen (no call of the system failed in the run) it returns 1 only for a
\* running operation, never for a task or a command.
C11_ActiveOperationsSeen ==
    ret.op = "bg_has_active_jobs" =>
        /\ ActiveOperations # {} => ret.val = 1
        /\ ret.val = 0 => ActiveOperations = {}
        /\ ret.val = 1 /\ used.faults = 0 => ActiveOperations # {}

\* Whether the step is a call of check_background_jobs(): it returns at once
\* or starts a walk.
CallsPoll ==
    /\ AtRest
    /\ ret'.op = "check_background_jobs" \/ ui'.pc = "loop"

\* C12: a call of check_background_jobs() that is made while a walk has the
\* list detached (the call comes from the error prompt of the walk and the
\* shared head is NULL), or in which bg_jobs_freeze() fails, returns at once:
\* it starts no walk and opens no prompt, unlinks and frees nothing, leaves
\* the head, every job and every pipe as they are and does not change whether
\* SIGCHLD is blocked.
C12_UnavailablePollIsNoOp ==
    [][/\ CallsPoll
       /\ \/ ui.pc \in Prompts /\ jobs = NULL
          \/ used'.faults > used.faults
       => /\ ret'.op = "check_background_jobs"
          /\ UNCHANGED <<jobs, job, proc, sigBlocked, ui, worker, bar, finLog,
                         freeLog, walk>>
      ]_vars

\* C12 witness: check_background_jobs() was called from the error prompt of a
\* walk that holds every job created so far, SIGCHLD being blocked by the
\* walk; it has returned and the walk still waits in the prompt.
C12_Witness ==
    /\ ret.op = "check_background_jobs"
    /\ ui.pc \in Prompts /\ ui.stack = <<>>
    /\ jobs = NULL /\ sigBlocked
    /\ Allocated = Range(walk.orig)
    /\ Len(walk.orig) = 2

\* C13: a job that is not running has its exit code: in no state, which is
\* what a thread other than the writer can see, has a job `running` 0 while
\* its exit_code is not assigned yet.
C13_FinishedHasExitCode ==
    \A j \in JobIds :
        job[j].st = "live" /\ ~job[j].running => job[j].exit_code # Unset

\* C14: error_msg() on the UI thread shows the error and changes no job;
\* error_msg() on a worker thread shows nothing and appends the text to the
\* error buffer of the job of that worker, after the text that is in it, and
\* changes no other job.
C14_ErrorAppendedToOwnJob ==
    [][/\ ret'.op = "show_error_msg" => job' = job
       /\ used'.errs > used.errs =>
             /\ ret'.op # "show_error_msg"
             /\ \E j \in JobIds :
                   /\ worker[j].pc = "run" /\ worker[j].cur = j
                   /\ job' = [job EXCEPT ![j].error = Append(@, used'.errs)]
      ]_vars

\* Whether the step is the one in which the walk, done with job_check(), goes
\* on from command p that has finished with exit code 127.
FindsExecFailed(p) ==
    /\ ui.pc = "select" /\ ui.p = p /\ ui'.pc = "loop"
    /\ job[p].type = "cmd" /\ ~job[p].running /\ job[p].exit_code = ExecFailed

Delivers(pid) == proc[pid].st = "exited" /\ proc'[pid].st = "reaped"

\* C17: the SIGCHLD handler reports the exit of the child of a job that is
\* registered and not freed only when no walk of check_background_jobs() is
\* between its freeze and its unfreeze, so that add_finished_job() never meets
\* the detached (empty) list, and that job then gets running = 0 and the exit
\* code.
C17_CompletionDeferredDuringWalk ==
    [][\A pid \in Pids, j \in JobIds :
          Delivers(pid) /\ job[j].st = "live" /\ job[j].pid = pid =>
             /\ ui.pc = "idle"
             /\ ~job'[j].running /\ job'[j].exit_code = proc[pid].code
      ]_vars

\* Jobs that were created and are not freed.
Live == {j \in JobIds : job[j].st = "live"}

\* C18: whenever no walk of check_background_jobs() is in progress the list of
\* jobs holds the jobs that were created and are not freed, each once; a walk
\* that is about to reattach its list finds the shared head NULL, as line 198
\* asserts, and no run is aborted by that assertion.
C18_RegistryHoldsEveryJob ==
    /\ ui.pc = "idle" =>
          /\ Range(List(jobs)) = Live
          /\ Len(List(jobs)) = Cardinality(Live)
    /\ ui.pc = "loop" /\ ui.p = NULL => ListIsUnused
    /\ ui.pc # "aborted"

\* C19: every operation is put on the job bar by the bg_execute() that
\* creates it and is taken off by the walk that frees it, and nothing else is
\* ever put on it: in every state the job bar holds exactly the operations
\* that are registered and not freed, so never a task, a command or a freed
\* job.
C19_JobBarFollowsOperations ==
    \A j \in JobIds : j \in bar <=> job[j].st = "live" /\ job[j].type = "op"

\* What holds of the job bar in spite of C4: it holds only operations that
\* are not freed; an operation gets on it only in the step of bg_execute() that
\* creates it and leaves it only in the step of the walk that frees it.
C19_JobBarHoldsLiveOperations ==
    /\ [](\A j \in bar : job[j].st = "live" /\ job[j].type = "op")
    /\ [][\A j \in JobIds :
             /\ j \in bar' \ bar => job[j].st = "none"
             /\ j \in bar \ bar' => job'[j].st = "freed"
         ]_vars

\* C20: bg_op_set_descr() replaces the description only while its thread
\* holds the lock of the bg_op, and sends the notification only when its
\* thread does not hold it, so that the notification, which takes the lock,
\* is not blocked by its own thread; while a reader holds the lock the
\* description is what the reader found.
C20_DescrSetUnderLockNotifiedAfter ==
    /\ SetDescrStep = "replace" => bgop.lock = "setter"
    /\ SetDescrStep = "changed" /\ ~bgop.inChanged => bgop.lock # "setter"
    /\ bgop.lock = "reader" => bgop.descr = bgop.seen

\* C20 witness: the last call of bg_op_set_descr() has replaced the
\* description and released the lock; a reader took the lock before the
\* notification, which now waits for it, and reads the new description, which
\* the job bar does not show yet.
C20_Witness ==
    /\ bgop.sets = MaxSets
    /\ SetDescrStep = "changed" /\ ~bgop.inChanged
    /\ bgop.lock = "reader"
    /\ bgop.descr = bgop.arg /\ bgop.seen = bgop.descr
    /\ bgop.shown # bgop.descr


\* C21: the drain of one poll ends for every job: job_check() returns after
\* a bounded number of calls of select() and read() for a job without a
\* pipe, for a child that writes nothing, at end of file, when read() fails
\* and when the child keeps writing, so that every call of
\* check_background_jobs() that started a walk returns.
C21_DrainTerminates == (ui.pc # "idle") ~> (ui.pc = "idle")

\* C21, what holds: a poll returns once the children have ended, as from
\* then on nothing is added to what the pipes hold.
C21_DrainEndsOnceChildrenEnded ==
    <>[](\A pid \in Pids : proc[pid].st # "running")
        => C21_DrainTerminates

\* C22: the completion of a command started by start_background_job() is
\* never missed, whenever SIGCHLD is delivered, also between fork() and the
\* registration of the job.  Once the handler has reaped a child nothing
\* reports that child again, so no registered command is still `running`
\* when its child has been reaped.
C22_CompletionNeverMissed ==
    \A j \in JobIds :
        job[j].st = "live" /\ job[j].type = "cmd" /\ job[j].running
            => proc[job[j].pid].st # "reaped"

\* C23: no worker thread accesses its job after the walk has destroyed it:
\* when background_task_bootstrap() assigns exit_code, and when the routine
\* of the worker reports an error, the job_t has not been freed.
C23_WorkerAccessesBeforeFree ==
    [][\A j \in JobIds :
          \/ worker[j].pc = "exit_code" /\ worker'[j].pc = "done"
          \/ worker[j].pc = "run" /\ worker'[j].pc = "run"
                /\ job'[j].error # job[j].error
          => job[j].st = "live"]_vars

\* The sequence s without its i-th element.
Without(s, i) == SubSeq(s, 1, i - 1) \o SubSeq(s, i + 1, Len(s))

\* The items of a menu, and the match flags of its items (none when matches
\* is NULL).
Items(m) == SubSeq(m.items, 1, m.len)

Flags(m) == IF m.matches = <<>> THEN <<>> ELSE SubSeq(m.matches, 1, m.len)

\* C24: "r" on an item whose restore fails changes neither the items, nor
\* the length, nor the matches of the menu and returns -1; when the restore
\* succeeds the item at the cursor, and no other, is removed, the length
\* drops by one, the other items and their match flags keep their order and
\* matching_entries drops by one exactly when the removed item was a match;
\* another key returns -1 and changes nothing.
C24_TrashKeyHandling ==
    tm.key # "none" =>
        LET b == tm.before
            cur == b.pos + 1
        IN  IF tm.key = "r" /\ tm.restored
            THEN /\ tm.ret = 1
                 /\ tm.len = b.len - 1
                 /\ Items(tm) = Without(Items(b), cur)
                 /\ Flags(tm) = IF b.matches = <<>> THEN <<>>
                                ELSE Without(Flags(b), cur)
                 /\ (tm.matches = <<>>) = (b.matches = <<>>)
                 /\ tm.matching_entries =
                       IF b.matches # <<>> /\ b.matches[cur] # 0
                       THEN b.matching_entries - 1
                       ELSE b.matching_entries
                 /\ tm.matching_entries =
                       Cardinality({k \in 1..Len(Flags(tm)) : Flags(tm)[k] # 0})
            ELSE /\ tm.ret = -1
                 /\ tm.items = b.items
                 /\ tm.len = b.len
                 /\ tm.matches = b.matches
                 /\ tm.matching_entries = b.matching_entries

\* C24: "r" restored the second of MaxItems items, which was a match, after
\* an "r" that failed; a match and an item that is none are left.
C24_Witness ==
    /\ tm.key = "r" /\ tm.restored /\ tm.ret = 1
    /\ tm.save_msg = 1
    /\ tm.before.len = MaxItems /\ tm.before.pos = 1
    /\ tm.before.matches # <<>> /\ tm.before.matches[2] = 1
    /\ tm.matching_entries = 1
    /\ tm.len = MaxItems - 1

=============================================================================
